---- MODULE Spec2Model ----
(***************************************************************************)
(* The Lineup: the draft turn-order state machine (DraftState), the mock   *)
(* draft pick loop of the Streamlit page (handle_mock_draft and the        *)
(* handlers it calls, one script run at a time), and the category          *)
(* ranking / punt detection of CategoryAnalyzer.                           *)
(***************************************************************************)
EXTENDS Integers, Sequences, FiniteSets, TLC

VARIABLES
    config,          \* sidebar configuration: [num_teams, draft_position]
    session_keys,    \* keys present in st.session_state
    draft_started,   \* st.session_state.draft_started (FALSE while the key is absent)
    draft_complete,  \* st.session_state.draft_complete (FALSE while the key is absent)
    draft_state,     \* st.session_state.draft_state: <<>> while absent, else <<DraftState>>
    pc,              \* position of the script: "idle", "start" (a run begins), "body"
    screen,          \* what the last finished run rendered
    clicked,         \* the widget input the current run carries
    last_call,       \* the last direct method call: [op, player_id, team_id, raised]
    advance_calls,   \* number of advance_pick() calls made on the DraftState
    z_col,           \* the category column the analysis is looking at
    all_team_rosters,\* team id -> roster; a player is given by its z-score in z_col
    user_team_id,    \* the team the analysis is asked for
    candidate,       \* get_suggestions: <<>> or <<the analysed row and the call's context>>
    suggestions,     \* get_suggestions: the returned list
    punt_candidates, \* detect_punt_strategies: the confidences of the detected candidates
    punt_analysis,   \* detect_punt_strategies: <<>> or <<the returned dictionary>>
    warnings,        \* detect_roster_construction_warnings: the severities of the warnings
    risk_analysis,   \* detect_roster_construction_warnings: <<>> or <<the returned dictionary>>
    category_analysis, \* _calculate_team_projection: the status of each category
    final_score,     \* _calculate_team_projection: final_score (-1 before the call)
    grade,           \* _calculate_team_projection: the letter grade ("" before the call)
    draft_saves,     \* st.session_state["draft_save_<id>"]: draft id -> saved dictionary
    returned_id,     \* save_draft_state: <<>> or <<the id the last call returned>>
    state_at_save,   \* <<>> or <<the DraftState as it was when save_draft_state ran>>
    sim              \* simulate_draft: <<>> or <<the local variables of the running call>>

sessVars == <<config, session_keys, draft_started, draft_complete, draft_state,
              pc, screen, clicked>>
apiVars == <<last_call, advance_calls>>
rankVars == <<z_col, all_team_rosters, user_team_id>>
suggestVars == <<candidate, suggestions>>
puntVars == <<punt_candidates, punt_analysis>>
riskVars == <<warnings, risk_analysis>>
gradeVars == <<category_analysis, final_score, grade>>
persistVars == <<draft_saves, returned_id, state_at_save>>
simVars == <<sim>>
fnVars == <<suggestVars, puntVars, riskVars, gradeVars, persistVars, simVars>>
vars == <<config, session_keys, draft_started, draft_complete, draft_state,
          pc, screen, clicked, last_call, advance_calls,
          z_col, all_team_rosters, user_team_id,
          candidate, suggestions, punt_candidates, punt_analysis,
          warnings, risk_analysis, category_analysis, final_score, grade,
          draft_saves, returned_id, state_at_save, sim>>

----------------------------------------------------------------------------
(* Bounds of the model *)

\* largest num_teams the sidebar offers in the model (the page offers 8..20)
MaxTeams == 3
\* roster_size of the DraftState the page creates (13 in the page), scaled down
ModelRosterSize == 2
\* number of rows of player_pool_df
PoolSize == 5
\* roster_size of the DraftState driven by direct method calls
ApiRosterSize == 1
\* player ids offered to direct draft_player calls
ApiPlayers == 2
\* cap on advance_pick() calls in the direct-call specification
MaxAdvance == 8
\* players on the analysed team's roster
MaxRoster == 3

----------------------------------------------------------------------------
(* Sequence helpers *)

Range(s) == {s[i] : i \in 1..Len(s)}

Reverse(s) == [i \in 1..Len(s) |-> s[Len(s) + 1 - i]]

RECURSIVE Sum(_)
Sum(s) == IF s = <<>> THEN 0 ELSE s[1] + Sum(Tail(s))

\* list.index(x): 0-based position of the first occurrence (x must occur)
ListIndex(s, x) == (CHOOSE i \in 1..Len(s) : s[i] = x /\ \A j \in 1..(i - 1) : s[j] # x) - 1

----------------------------------------------------------------------------
(* class DraftState *)

DraftState(num_teams, draft_position, roster_size) ==
    [num_teams         |-> num_teams,
     draft_position    |-> draft_position,
     roster_size       |-> roster_size,
     round             |-> 1,
     current_pick_team |-> 1,
     drafted_players   |-> <<>>,
     team_rosters      |-> [i \in 1..num_teams |-> <<>>],
     user_team_id      |-> draft_position,
     draft_order       |-> [i \in 1..num_teams |-> i],
     complete          |-> FALSE]

\* advance_pick that forgets to reverse draft_order at the end of a round
advance_pick_no_reverse(s) ==
    LET idx == ListIndex(s.draft_order, s.current_pick_team)
    IN  IF idx + 1 < Len(s.draft_order)
        THEN [s EXCEPT !.current_pick_team = s.draft_order[idx + 2]]
        ELSE [s EXCEPT !.round = @ + 1,
                       !.current_pick_team = s.draft_order[1]]

\* advance_pick that forgets to increment round at the end of a round
advance_pick_same_round(s) ==
    LET idx == ListIndex(s.draft_order, s.current_pick_team)
    IN  IF idx + 1 < Len(s.draft_order)
        THEN [s EXCEPT !.current_pick_team = s.draft_order[idx + 2]]
        ELSE [s EXCEPT !.draft_order = Reverse(s.draft_order),
                       !.current_pick_team = Reverse(s.draft_order)[1]]

advance_pick(s) ==
    LET idx == ListIndex(s.draft_order, s.current_pick_team)
    IN  IF idx + 1 < Len(s.draft_order)
        THEN [s EXCEPT !.current_pick_team = s.draft_order[idx + 2]]
        ELSE [s EXCEPT !.round = @ + 1,
                       !.draft_order = Reverse(s.draft_order),
                       !.current_pick_team = Reverse(s.draft_order)[1]]

\* is_complete written with any() in place of all()
is_complete_any(s) ==
    \E t \in DOMAIN s.team_rosters : Len(s.team_rosters[t]) >= s.roster_size

\* is_complete written with > in place of >=
is_complete_strict(s) ==
    \A t \in DOMAIN s.team_rosters : Len(s.team_rosters[t]) > s.roster_size

is_complete(s) ==
    \A t \in DOMAIN s.team_rosters : Len(s.team_rosters[t]) >= s.roster_size

draft_player(s, player_id, team_id) ==
    [s EXCEPT !.team_rosters[team_id] = Append(@, player_id),
              !.drafted_players = Append(@, player_id)]

----------------------------------------------------------------------------
(* The player pool and the pick helpers *)

\* player_pool_df: one row per player_id, ordered by total_z_score descending;
\* a player is named by its row number
player_pool_df == [i \in 1..PoolSize |-> i]

\* the name column: player_id is unique, names need not be (rows 1 and 2 share one)
NameOf(player_id) == IF player_id = 2 THEN 1 ELSE player_id

\* get_available_players that does not filter the drafted players out
get_available_players_unfiltered(pool, drafted_players) == pool

get_available_players(pool, drafted_players) ==
    SelectSeq(pool, LAMBDA p : p \notin Range(drafted_players))

\* AIOpponent.make_pick: the first row of the available players
make_pick(available_players) == available_players[1]

\* dict(zip(name, player_id))[selected]: the last row carrying the name wins
player_dict(available_players, selected) ==
    LET rows == {i \in 1..Len(available_players) : NameOf(available_players[i]) = selected}
    IN  available_players[CHOOSE i \in rows : \A j \in rows : j <= i]

AvailableNames(available_players) == {NameOf(p) : p \in Range(available_players)}

----------------------------------------------------------------------------
(* initialize_draft_state *)

ds == draft_state[1]

\* needs_reinit that only looks for a missing draft_state
needs_reinit_missing_only(num_teams, draft_position) ==
    "draft_state" \notin session_keys

needs_reinit(num_teams, draft_position) ==
    \/ "draft_state" \notin session_keys
    \/ ds.num_teams # num_teams
    \/ ds.draft_position # draft_position
    \/ ds.user_team_id # draft_position

\* the call made by handle_mock_draft once draft_started is set
initialize_draft_state(num_teams, draft_position) ==
    IF needs_reinit(num_teams, draft_position)
    THEN /\ draft_state' = <<DraftState(num_teams, draft_position, ModelRosterSize)>>
         /\ session_keys' = session_keys \cup {"draft_state", "draft_state_initialized"}
         /\ draft_started' = IF "draft_started" \in session_keys THEN FALSE ELSE draft_started
         /\ draft_complete' = IF "draft_complete" \in session_keys THEN FALSE ELSE draft_complete
    ELSE UNCHANGED <<draft_state, session_keys, draft_started, draft_complete>>

----------------------------------------------------------------------------
(* The sidebar and the widgets: what the user can do between two runs *)

ValidConfigs ==
    {[num_teams |-> n, draft_position |-> p] : n \in 1..MaxTeams, p \in 1..MaxTeams}
        \ {c \in [num_teams : 1..MaxTeams, draft_position : 1..MaxTeams] :
               c.draft_position > c.num_teams}

\* render_sidebar_config: the user edits the league settings
ConfigChange ==
    /\ pc = "idle"
    /\ \E c \in ValidConfigs : c # config /\ config' = c
    /\ pc' = "start"
    /\ clicked' = <<>>
    /\ UNCHANGED <<session_keys, draft_started, draft_complete, draft_state, screen>>
    /\ UNCHANGED <<apiVars, rankVars, fnVars>>

\* any other widget interaction: the script reruns with no button pressed
Interact ==
    /\ pc = "idle"
    /\ pc' = "start"
    /\ clicked' = <<>>
    /\ UNCHANGED <<config, session_keys, draft_started, draft_complete, draft_state, screen>>
    /\ UNCHANGED <<apiVars, rankVars, fnVars>>

\* "Start New Draft" pressed on the pre-draft screen: the run that sees the
\* button sets draft_started and calls st.rerun()
StartClick ==
    /\ pc = "idle"
    /\ screen = "pre_draft"
    /\ ~draft_started
    /\ draft_started' = TRUE
    /\ pc' = "start"
    /\ clicked' = <<>>
    /\ UNCHANGED <<config, session_keys, draft_complete, draft_state, screen>>
    /\ UNCHANGED <<apiVars, rankVars, fnVars>>

\* "Draft Player" pressed with a name selected in render_player_selection
DraftClick ==
    /\ pc = "idle"
    /\ screen = "user_pick"
    /\ \E selected \in AvailableNames(get_available_players(player_pool_df, ds.drafted_players)) :
           clicked' = <<selected>>
    /\ pc' = "start"
    /\ UNCHANGED <<config, session_keys, draft_started, draft_complete, draft_state, screen>>
    /\ UNCHANGED <<apiVars, rankVars, fnVars>>

----------------------------------------------------------------------------
(* handle_mock_draft: one script run *)

\* draft_started is not set: the pre-draft screen is rendered
RunPreDraft ==
    /\ pc = "start"
    /\ ~draft_started
    /\ session_keys' = session_keys \cup {"draft_started"}
    /\ screen' = "pre_draft"
    /\ pc' = "idle"
    /\ clicked' = <<>>
    /\ UNCHANGED <<config, draft_started, draft_complete, draft_state>>
    /\ UNCHANGED <<apiVars, rankVars, fnVars>>

\* draft_started is set: the pool is loaded and initialize_draft_state is called
RunInitialize ==
    /\ pc = "start"
    /\ draft_started
    /\ initialize_draft_state(config.num_teams, config.draft_position)
    /\ pc' = "body"
    /\ UNCHANGED <<config, screen, clicked>>
    /\ UNCHANGED <<apiVars, rankVars, fnVars>>

available_players == get_available_players(player_pool_df, ds.drafted_players)

\* is_complete(): handle_draft_complete renders the final rosters
RunDraftComplete ==
    /\ pc = "body"
    /\ is_complete(ds)
    /\ screen' = "complete"
    /\ pc' = "idle"
    /\ clicked' = <<>>
    /\ UNCHANGED <<config, session_keys, draft_started, draft_complete, draft_state>>
    /\ UNCHANGED <<apiVars, rankVars, fnVars>>

\* no available player: draft_complete is set and st.rerun() ends the run
RunPoolExhausted ==
    /\ pc = "body"
    /\ ~is_complete(ds)
    /\ available_players = <<>>
    /\ session_keys' = session_keys \cup {"draft_complete"}
    /\ draft_complete' = TRUE
    /\ screen' = "none"
    /\ pc' = "start"
    /\ clicked' = <<>>
    /\ UNCHANGED <<config, draft_started, draft_state>>
    /\ UNCHANGED <<apiVars, rankVars, fnVars>>

\* handle_user_pick without a confirmed selection: the pick widgets are rendered
RunUserTurn ==
    /\ pc = "body"
    /\ ~is_complete(ds)
    /\ available_players # <<>>
    /\ ds.current_pick_team = ds.user_team_id
    /\ Range(clicked) \cap AvailableNames(available_players) = {}
    /\ screen' = "user_pick"
    /\ pc' = "idle"
    /\ clicked' = <<>>
    /\ UNCHANGED <<config, session_keys, draft_started, draft_complete, draft_state>>
    /\ UNCHANGED <<apiVars, rankVars, fnVars>>

\* handle_user_pick with a confirmed selection: draft_player, advance_pick, st.rerun()
RunUserPick ==
    /\ pc = "body"
    /\ ~is_complete(ds)
    /\ available_players # <<>>
    /\ ds.current_pick_team = ds.user_team_id
    /\ Range(clicked) \cap AvailableNames(available_players) # {}
    /\ draft_state' = <<advance_pick(draft_player(ds, player_dict(available_players, clicked[1]),
                                                  ds.user_team_id))>>
    /\ screen' = "none"
    /\ pc' = "start"
    /\ clicked' = <<>>
    /\ UNCHANGED <<config, session_keys, draft_started, draft_complete>>
    /\ UNCHANGED <<apiVars, rankVars, fnVars>>

\* handle_ai_pick: the best available player goes to current_pick_team, st.rerun()
RunAIPick ==
    /\ pc = "body"
    /\ ~is_complete(ds)
    /\ available_players # <<>>
    /\ ds.current_pick_team # ds.user_team_id
    /\ draft_state' = <<advance_pick(draft_player(ds, make_pick(available_players),
                                                  ds.current_pick_team))>>
    /\ screen' = "none"
    /\ pc' = "start"
    /\ clicked' = <<>>
    /\ UNCHANGED <<config, session_keys, draft_started, draft_complete>>
    /\ UNCHANGED <<apiVars, rankVars, fnVars>>

----------------------------------------------------------------------------
(* The page: a new browser session with a valid sidebar configuration *)

NoCall == [op |-> "none", player_id |-> 0, team_id |-> 0, raised |-> "none"]

\* simulate_draft is not running
NoSimulation == sim = <<>>

\* nothing has been saved
NoSaves ==
    /\ draft_saves = <<>>
    /\ returned_id = <<>>
    /\ state_at_save = <<>>

\* no analysis call has been made
InitFn ==
    /\ candidate = <<>>
    /\ suggestions = <<>>
    /\ punt_candidates = <<>>
    /\ punt_analysis = <<>>
    /\ warnings = <<>>
    /\ risk_analysis = <<>>
    /\ category_analysis = <<>>
    /\ final_score = -1
    /\ grade = ""
    /\ NoSaves
    /\ NoSimulation

InitOther ==
    /\ InitFn
    /\ last_call = NoCall
    /\ advance_calls = 0
    /\ z_col = "z_points"
    /\ all_team_rosters = <<>>
    /\ user_team_id = 0

InitSession ==
    /\ session_keys = {}
    /\ draft_started = FALSE
    /\ draft_complete = FALSE
    /\ draft_state = <<>>
    /\ pc = "start"
    /\ screen = "none"
    /\ clicked = <<>>

Init ==
    /\ config \in ValidConfigs
    /\ InitSession
    /\ InitOther

Next ==
    \/ ConfigChange
    \/ Interact
    \/ StartClick
    \/ DraftClick
    \/ RunPreDraft
    \/ RunInitialize
    \/ RunDraftComplete
    \/ RunPoolExhausted
    \/ RunUserTurn
    \/ RunUserPick
    \/ RunAIPick

Spec == Init /\ [][Next]_vars

----------------------------------------------------------------------------
(* handle_mock_draft called with any configuration dictionary: the sidebar
   keeps later edits valid, the first configuration is the caller's *)

AnyConfigs == [num_teams : 0..MaxTeams, draft_position : 0..(MaxTeams + 1)]

InitCfg ==
    /\ config \in AnyConfigs
    /\ InitSession
    /\ InitOther

SpecCfg == InitCfg /\ [][Next]_vars

----------------------------------------------------------------------------
(* DraftState driven by direct method calls, in any order *)

MaxApiPicks == ApiRosterSize + 1

\* draft_state.advance_pick()
CallAdvancePick ==
    /\ pc = "api"
    /\ advance_calls < MaxAdvance
    /\ draft_state' = <<advance_pick(ds)>>
    /\ advance_calls' = advance_calls + 1
    /\ last_call' = [op |-> "advance_pick", player_id |-> 0, team_id |-> 0, raised |-> "none"]
    /\ UNCHANGED <<config, session_keys, draft_started, draft_complete, pc, screen, clicked>>
    /\ UNCHANGED <<rankVars, fnVars>>

\* draft_state.draft_player(player_id, team_id) for any player and any team of the draft
CallDraftPlayer ==
    /\ pc = "api"
    /\ Len(ds.drafted_players) < MaxApiPicks
    /\ \E player_id \in 1..ApiPlayers, team_id \in DOMAIN ds.team_rosters :
           /\ draft_state' = <<draft_player(ds, player_id, team_id)>>
           /\ last_call' = [op |-> "draft_player", player_id |-> player_id,
                            team_id |-> team_id, raised |-> "none"]
    /\ UNCHANGED <<config, session_keys, draft_started, draft_complete, pc, screen, clicked>>
    /\ UNCHANGED <<advance_calls, rankVars, fnVars>>

InitState ==
    /\ config \in ValidConfigs
    /\ session_keys = {"draft_state"}
    /\ draft_started = FALSE
    /\ draft_complete = FALSE
    /\ draft_state = <<DraftState(config.num_teams, config.draft_position, ApiRosterSize)>>
    /\ pc = "api"
    /\ screen = "none"
    /\ clicked = <<>>
    /\ InitOther

NextState ==
    \/ CallAdvancePick
    \/ CallDraftPlayer

SpecState == InitState /\ [][NextState]_vars

----------------------------------------------------------------------------
(* Properties of DraftState and of the pick loop *)

Ascending(n) == [i \in 1..n |-> i]
Descending(n) == [i \in 1..n |-> n + 1 - i]

\* C1: serpentine turn order. From a fresh DraftState of N >= 1 teams, after k
\* advance_pick() calls round = 1 + floor(k/N), draft_order is 1..N in odd rounds
\* and N..1 in even rounds, and current_pick_team = draft_order[k mod N]; after
\* 2N calls current_pick_team is back on team 1 with round = 3.
SerpentineTurnOrder ==
    LET N == ds.num_teams
        k == advance_calls
    IN  /\ ds.round = 1 + (k \div N)
        /\ ds.draft_order = IF ds.round % 2 = 1 THEN Ascending(N) ELSE Descending(N)
        /\ ds.current_pick_team = ds.draft_order[(k % N) + 1]
        /\ (k = 2 * N => ds.current_pick_team = 1 /\ ds.round = 3)

SerpentineWitness ==
    /\ ds.num_teams >= 2
    /\ advance_calls = 2 * ds.num_teams
    /\ ds.round = 3
    /\ ds.current_pick_team = 1

RosterSlots(s) ==
    UNION {{<<t, i>> : i \in 1..Len(s.team_rosters[t])} : t \in DOMAIN s.team_rosters}

RosterLengths(s) == [t \in 1..s.num_teams |-> Len(s.team_rosters[t])]

\* C2: roster exclusivity. In every state of the pick loop every drafted player
\* id occurs exactly once in drafted_players and in exactly one roster slot, and
\* the roster lengths add up to len(drafted_players).
RosterExclusivity ==
    draft_state # <<>> =>
        LET dp == ds.drafted_players
        IN  /\ \A i, j \in 1..Len(dp) : i # j => dp[i] # dp[j]
            /\ \A p \in Range(dp) :
                   Cardinality({sl \in RosterSlots(ds) : ds.team_rosters[sl[1]][sl[2]] = p}) = 1
            /\ \A sl \in RosterSlots(ds) : ds.team_rosters[sl[1]][sl[2]] \in Range(dp)
            /\ Sum(RosterLengths(ds)) = Len(dp)

RosterExclusivityWitness ==
    /\ draft_state # <<>>
    /\ ds.num_teams >= 2
    /\ Len(ds.drafted_players) >= 3
    /\ ds.team_rosters[ds.user_team_id] # <<>>
    /\ \E t \in 1..ds.num_teams : t # ds.user_team_id /\ ds.team_rosters[t] # <<>>

\* C3: draft_player for a player already in drafted_players, or for a team whose
\* roster already holds roster_size players, raises InvalidPickError and leaves
\* the DraftState unchanged.
InvalidPickRejected ==
    [][(/\ last_call'.op = "draft_player"
        /\ \/ last_call'.player_id \in Range(ds.drafted_players)
           \/ Len(ds.team_rosters[last_call'.team_id]) >= ds.roster_size)
       => (/\ last_call'.raised = "InvalidPickError"
           /\ draft_state' = draft_state)]_vars

AllRostersFull(s) ==
    ~(\E t \in 1..s.num_teams : Len(s.team_rosters[t]) < s.roster_size)

\* C4: is_complete() is true exactly when no team's roster is shorter than
\* roster_size; one team below capacity makes it false.
CompletionIff ==
    is_complete(ds) <=> AllRostersFull(ds)

CompletionWitness ==
    /\ ds.num_teams >= 2
    /\ Cardinality({t \in 1..ds.num_teams : Len(ds.team_rosters[t]) < ds.roster_size}) = 1
    /\ ~AllRostersFull(ds)

\* C5: frozen once complete. Once every roster of the session's DraftState is
\* full, no step changes that DraftState: draft_state stays as it is, or
\* initialize_draft_state puts a newly constructed DraftState in its place after
\* a configuration change.
FrozenOnceComplete ==
    [][(draft_state # <<>> /\ AllRostersFull(ds))
       => \/ draft_state' = draft_state
          \/ /\ pc = "start"
             /\ ds.num_teams # config.num_teams \/ ds.draft_position # config.draft_position
             /\ draft_state' =
                    <<DraftState(config.num_teams, config.draft_position, ModelRosterSize)>>]_vars

FrozenWitness ==
    /\ draft_state # <<>>
    /\ ds.num_teams >= 2
    /\ AllRostersFull(ds)
    /\ screen = "complete"
    /\ pc = "idle"

\* C6: record and advance come as a pair and each pick goes to current_pick_team:
\* between picks len(drafted_players) = (round-1)*num_teams + index of
\* current_pick_team in draft_order, the teams before current_pick_team in
\* draft_order hold round players and the others round-1, and no roster exceeds
\* roster_size.
PairedRecordAdvance ==
    draft_state # <<>> =>
        LET N   == ds.num_teams
            idx == ListIndex(ds.draft_order, ds.current_pick_team)
        IN  /\ Len(ds.drafted_players) = (ds.round - 1) * N + idx
            /\ \A i \in 1..N :
                   Len(ds.team_rosters[ds.draft_order[i]]) =
                       IF i - 1 < idx THEN ds.round ELSE ds.round - 1
            /\ \A t, u \in 1..N :
                   Len(ds.team_rosters[t]) - Len(ds.team_rosters[u]) <= 1
            /\ \A t \in 1..N : Len(ds.team_rosters[t]) <= ds.roster_size

PairedWitness ==
    /\ draft_state # <<>>
    /\ ds.num_teams >= 2
    /\ ds.round = 2
    /\ ListIndex(ds.draft_order, ds.current_pick_team) >= 1
    /\ ds.team_rosters[ds.user_team_id] # <<>>

InvalidConfiguration(c) ==
    c.num_teams < 1 \/ c.draft_position \notin 1..c.num_teams

\* C7: a draft initialised with num_teams < 1 or a draft slot outside
\* 1..num_teams fails: no DraftState is created for it and no pick is recorded.
InvalidConfigRejected ==
    /\ InvalidConfiguration(config) => draft_state = <<>>
    /\ draft_state # <<>> /\ InvalidConfiguration(ds) => ds.drafted_players = <<>>

\* C8: when initialize_draft_state runs mid-draft with a num_teams or
\* draft_position other than the stored DraftState's, the stored state is replaced
\* by a fresh one: round 1, current_pick_team 1, ascending draft_order, empty
\* rosters and drafted_players.
ReinitOnConfigChange ==
    [][(/\ pc = "start"
        /\ draft_started
        /\ draft_state # <<>>
        /\ ds.num_teams # config.num_teams \/ ds.draft_position # config.draft_position)
       => (/\ Len(draft_state') = 1
           /\ draft_state'[1].num_teams = config.num_teams
           /\ draft_state'[1].draft_position = config.draft_position
           /\ draft_state'[1].user_team_id = config.draft_position
           /\ draft_state'[1].round = 1
           /\ draft_state'[1].current_pick_team = 1
           /\ draft_state'[1].draft_order = Ascending(config.num_teams)
           /\ draft_state'[1].drafted_players = <<>>
           /\ DOMAIN draft_state'[1].team_rosters = 1..config.num_teams
           /\ \A t \in 1..config.num_teams : draft_state'[1].team_rosters[t] = <<>>
           /\ ~draft_state'[1].complete)]_vars

ReinitWitness ==
    /\ pc = "start"
    /\ draft_started
    /\ draft_state # <<>>
    /\ ds.drafted_players # <<>>
    /\ ds.round >= 2
    /\ ds.num_teams # config.num_teams

----------------------------------------------------------------------------
(* class CategoryAnalyzer, one category column at a time *)

\* CATEGORIES[z_col]['good_direction']
good_direction(z) == IF z = "z_turnovers" THEN "low" ELSE "high"

\* the columns the model analyses: one high-good counting category, turnovers,
\* and one percentage category
ModelCategories == {"z_points", "z_turnovers", "z_fg_pct"}

\* detect_punt_strategies(min_players=3)
min_players == 3
\* "if team_rank and total_teams >= 6"
PuntMinTeams == 6

\* team_df[z_col].sum(), and 0 for a team without players
team_total(roster) == IF roster # <<>> THEN Sum(roster) ELSE 0

\* a sort that ignores reverse=: smaller totals always come first
sorts_before_ascending(u, t, totals, reverse_sort) ==
    \/ totals[u] < totals[t]
    \/ totals[u] = totals[t] /\ u < t

\* sorted(team_totals.items(), key=lambda x: x[1], reverse=reverse_sort): whether
\* team u is placed before team t. The sort is stable, also with reverse=True:
\* teams with equal totals keep the dictionary's order (team ids ascending)
sorts_before(u, t, totals, reverse_sort) ==
    \/ IF reverse_sort THEN totals[u] > totals[t] ELSE totals[u] < totals[t]
    \/ totals[u] = totals[t] /\ u < t

\* enumerate(sorted_teams, 1): the place of team t in the sorted list
place_in_sorted(t, totals, reverse_sort) ==
    1 + Cardinality({u \in DOMAIN totals : sorts_before(u, t, totals, reverse_sort)})

_calculate_team_rankings(rosters, z) ==
    LET team_totals == [t \in DOMAIN rosters |-> team_total(rosters[t])]
        reverse_sort == good_direction(z) = "high"
    IN  [rankings    |-> [t \in DOMAIN rosters |->
                              place_in_sorted(t, team_totals, reverse_sort)],
         totals      |-> team_totals,
         total_teams |-> Cardinality({t \in DOMAIN rosters : rosters[t] # <<>>})]

\* rank None is written 0
_get_category_status_relative(rank, total_teams) ==
    IF rank = 0 \/ total_teams <= 1 THEN "average"
    ELSE IF 100 * (total_teams - rank + 1) >= 67 * total_teams THEN "strong"
    ELSE IF 100 * (total_teams - rank + 1) >= 33 * total_teams THEN "average"
    ELSE "weak"

_get_empty_analysis ==
    [team_total |-> 0, status |-> "average", rank |-> 0, total_teams |-> 1]

\* analyze_team_categories without the "if not roster_ids" return
analyze_team_categories_unguarded(roster_ids, rosters, team_id, z) ==
    LET with_rankings == rosters # <<>> /\ team_id # 0
        ranking_info  == _calculate_team_rankings(rosters, z)
        user_rank     == IF with_rankings /\ team_id \in DOMAIN rosters
                         THEN ranking_info.rankings[team_id] ELSE 0
        total_teams   == IF with_rankings THEN ranking_info.total_teams ELSE 1
    IN  [team_total  |-> Sum(roster_ids),
         status      |-> _get_category_status_relative(user_rank, total_teams),
         rank        |-> user_rank,
         total_teams |-> total_teams]

\* analyze_team_categories, the entry of category z; rosters = <<>> stands for
\* all_team_rosters=None and team_id = 0 for user_team_id=None
analyze_team_categories(roster_ids, rosters, team_id, z) ==
    IF roster_ids = <<>>
    THEN _get_empty_analysis
    ELSE LET with_rankings == rosters # <<>> /\ team_id # 0
             ranking_info  == _calculate_team_rankings(rosters, z)
             user_rank     == IF with_rankings /\ team_id \in DOMAIN rosters
                              THEN ranking_info.rankings[team_id] ELSE 0
             total_teams   == IF with_rankings THEN ranking_info.total_teams ELSE 1
         IN  [team_total  |-> Sum(roster_ids),
              status      |-> _get_category_status_relative(user_rank, total_teams),
              rank        |-> user_rank,
              total_teams |-> total_teams]

NoPunt == [is_punt_candidate |-> FALSE, confidence |-> "low"]

\* detect_punt_strategies that forgets the "team_total < -1" part of criterion 1
punt_candidate_rank_only(roster_ids, rosters, team_id, z) ==
    IF Len(roster_ids) < min_players
    THEN NoPunt
    ELSE LET data == analyze_team_categories(roster_ids, rosters, team_id, z)
         IN  IF data.rank # 0 /\ data.total_teams >= PuntMinTeams
                /\ 5 * data.rank >= 4 * data.total_teams
             THEN [is_punt_candidate |-> TRUE, confidence |-> "high"]
             ELSE NoPunt

\* detect_punt_strategies: the verdict of the loop body for category z
punt_candidate(roster_ids, rosters, team_id, z) ==
    IF Len(roster_ids) < min_players
    THEN NoPunt
    ELSE LET data          == analyze_team_categories(roster_ids, rosters, team_id, z)
             total         == data.team_total
             team_rank     == data.rank
             total_teams   == data.total_teams
             poor          == Len(SelectSeq(roster_ids, LAMBDA v : v < -1))
             total_players == Len(roster_ids)
         IN  IF team_rank # 0 /\ total_teams >= PuntMinTeams
             THEN IF 5 * team_rank >= 4 * total_teams /\ total < -1
                  THEN [is_punt_candidate |-> TRUE, confidence |-> "high"]
                  ELSE IF team_rank = total_teams /\ total < -2
                       THEN [is_punt_candidate |-> TRUE, confidence |-> "medium"]
                       ELSE NoPunt
             ELSE IF good_direction(z) = "high" /\ total < -4
                  THEN [is_punt_candidate |-> TRUE, confidence |-> "medium"]
             ELSE IF good_direction(z) = "low" /\ total > 4
                  THEN [is_punt_candidate |-> TRUE, confidence |-> "medium"]
             ELSE IF z \in {"z_fg_pct", "z_ft_pct"} /\ total_players >= 6
                  THEN IF 4 * poor >= 3 * total_players
                       THEN [is_punt_candidate |-> TRUE, confidence |-> "medium"]
                       ELSE NoPunt
             ELSE NoPunt

----------------------------------------------------------------------------
(* The analysed league: rosters grow pick by pick and the page analyses the
   user's team after every run (render_draft_interface) *)

\* the smallest league in which rankings count for punt detection
LeagueTeams == PuntMinTeams

\* z-scores of the players a team can pick, in the column z_col
ZVals == {-2, 1}

\* a team other than the analysed one picks its first player
OtherTeamPick ==
    /\ pc = "analysis"
    /\ \E t \in 1..LeagueTeams, v \in ZVals :
           /\ t # user_team_id
           /\ all_team_rosters[t] = <<>>
           /\ all_team_rosters' = [all_team_rosters EXCEPT ![t] = <<v>>]
    /\ UNCHANGED <<z_col, user_team_id>>
    /\ UNCHANGED <<sessVars, apiVars, fnVars>>

\* the analysed team picks a player
UserTeamPick ==
    /\ pc = "analysis"
    /\ Len(all_team_rosters[user_team_id]) < MaxRoster
    /\ \E v \in ZVals :
           all_team_rosters' = [all_team_rosters EXCEPT ![user_team_id] = Append(@, v)]
    /\ UNCHANGED <<z_col, user_team_id>>
    /\ UNCHANGED <<sessVars, apiVars, fnVars>>

InitRank ==
    /\ z_col \in ModelCategories
    /\ user_team_id \in 1..LeagueTeams
    /\ all_team_rosters = [t \in 1..LeagueTeams |-> <<>>]
    /\ config = [num_teams |-> LeagueTeams, draft_position |-> user_team_id]
    /\ session_keys = {}
    /\ draft_started = FALSE
    /\ draft_complete = FALSE
    /\ draft_state = <<>>
    /\ pc = "analysis"
    /\ screen = "none"
    /\ clicked = <<>>
    /\ last_call = NoCall
    /\ advance_calls = 0
    /\ InitFn

NextRank ==
    \/ OtherTeamPick
    \/ UserTeamPick

SpecRank == InitRank /\ [][NextRank]_vars

\* the call of render_draft_interface: the user's roster, all rosters, the user's id
UserPunt == punt_candidate(all_team_rosters[user_team_id], all_team_rosters,
                           user_team_id, z_col)

UserRanking == _calculate_team_rankings(all_team_rosters, z_col)

RankAfter(t, r) ==
    _calculate_team_rankings([all_team_rosters EXCEPT ![t] = r], z_col).rankings[t]

\* rosters with a larger total than roster: one more player with a positive
\* z-score, or another single player
RaisedRosters(roster) ==
    {Append(roster, v) : v \in {w \in ZVals : w > 0}}
        \cup {<<v>> : v \in {w \in ZVals : w > team_total(roster)}}

\* C10: ranking monotonicity. In a high-good category, giving one team a larger
\* category total while every other roster stays as it is never gives that team
\* a larger rank number, ties included.
RankingMonotone ==
    good_direction(z_col) = "high" =>
        LET rankings == UserRanking.rankings
        IN  \A t \in 1..LeagueTeams : \A r \in RaisedRosters(all_team_rosters[t]) :
                /\ team_total(r) > team_total(all_team_rosters[t])
                /\ RankAfter(t, r) <= rankings[t]

\* a team tied with a team listed before it, which a larger total moves ahead
RankingTieWitness ==
    /\ good_direction(z_col) = "high"
    /\ \E t, u \in 1..LeagueTeams :
           /\ u < t
           /\ all_team_rosters[t] # <<>>
           /\ all_team_rosters[u] # <<>>
           /\ team_total(all_team_rosters[t]) = team_total(all_team_rosters[u])
           /\ \E r \in RaisedRosters(all_team_rosters[t]) :
                  RankAfter(t, r) < UserRanking.rankings[t]

\* C11: turnover sign uniformity. In the league ranking for turnovers, a team
\* whose turnover total is strictly higher than another team's has the
\* numerically smaller rank of the two.
TurnoverHigherIsBetter ==
    z_col = "z_turnovers" =>
        LET ranking == UserRanking
        IN  \A t, u \in 1..LeagueTeams :
                (/\ all_team_rosters[t] # <<>>
                 /\ all_team_rosters[u] # <<>>
                 /\ ranking.totals[t] > ranking.totals[u])
                    => ranking.rankings[t] < ranking.rankings[u]

----------------------------------------------------------------------------
(* PickSuggestionEngine.get_suggestions: one row of top_players and the
   context of the call. Rates are in hundredths (usage_rate 0.28 is 28). *)

\* reasoning_parts and priority_score contributed by one signal
NoSignal == [parts |-> <<>>, score |-> 0]

\* 1. punt strategy analysis: every punt category adds the same bonus, the
\* first insight and, at confidence 'high', the "Fits ..." context are kept
punt_signal(c) ==
    IF c.n_punt > 0 /\ c.punt_confidence \in {"high", "medium"}
    THEN LET insight == IF c.non_punt_strength > 5 THEN <<"Excellent punt strategy fit">>
                        ELSE IF c.non_punt_strength > 3 THEN <<"Good punt strategy fit">>
                        ELSE IF c.non_punt_strength > 1 THEN <<"Decent punt strategy fit">>
                        ELSE <<>>
             bonus   == IF c.non_punt_strength > 5 THEN 15
                        ELSE IF c.non_punt_strength > 3 THEN 10
                        ELSE IF c.non_punt_strength > 1 THEN 5
                        ELSE 0
         IN  IF insight # <<>>
             THEN [parts |-> insight \o (IF c.punt_confidence = "high"
                                         THEN <<"Fits punt strategy">> ELSE <<>>),
                   score |-> c.n_punt * bonus]
             ELSE NoSignal
    ELSE NoSignal

\* 2. position scarcity
scarcity_signal(c) ==
    IF c.elite_position_count <= 3
    THEN [parts |-> <<"Only elite left">>, score |-> 15]
    ELSE IF c.elite_position_count <= 5
    THEN [parts |-> <<"Limited elite options remaining">>, score |-> 10]
    ELSE NoSignal

\* 3. category need: need_hits weak categories in which the player is above 1
need_signal(c) ==
    IF c.need_hits > 0
    THEN [parts |-> <<"Addresses team weaknesses">>, score |-> 20 * c.need_hits]
    ELSE NoSignal

current_pick_number(c) == ((c.current_round - 1) * c.num_teams) + c.draft_position

\* 4. value against ADP; adp is <<>> when it is NaN
adp_signal(c) ==
    IF c.adp # <<>>
    THEN LET adp_value == c.adp[1] - current_pick_number(c)
         IN  IF adp_value > 12 THEN [parts |-> <<"Excellent value">>, score |-> 20]
             ELSE IF adp_value > 6 THEN [parts |-> <<"Good value">>, score |-> 10]
             ELSE IF adp_value < -6 THEN [parts |-> <<"Reaching early">>, score |-> -5]
             ELSE NoSignal
    ELSE NoSignal

\* 5. position need; position_count is <<>> when the user's roster is empty
position_signal(c) ==
    IF c.position_count # <<>>
    THEN IF c.position_count[1] = 0
         THEN [parts |-> <<"Fills need">>, score |-> 12]
         ELSE IF c.position_count[1] = 1 /\ c.main_position \in {"C", "PG"}
         THEN [parts |-> <<"Adds depth">>, score |-> 8]
         ELSE NoSignal
    ELSE NoSignal

\* 6a. advanced statistics; advanced is <<>> when the columns are missing
advanced_signal(c) ==
    IF c.advanced = <<>>
    THEN NoSignal
    ELSE LET a == c.advanced[1]
             usage == IF a.usage_rate > 28 THEN [parts |-> <<"High usage player">>, score |-> 3]
                      ELSE IF a.usage_rate > 25
                      THEN [parts |-> <<"Above average usage">>, score |-> 1]
                      ELSE NoSignal
             ts    == IF a.true_shooting_pct > 60
                      THEN [parts |-> <<"Elite shooting efficiency">>, score |-> 4]
                      ELSE IF a.true_shooting_pct > 55
                      THEN [parts |-> <<"Good shooting efficiency">>, score |-> 2]
                      ELSE IF a.true_shooting_pct < 50
                      THEN [parts |-> <<"Below average efficiency">>, score |-> -2]
                      ELSE NoSignal
             per   == IF a.player_efficiency_rating > 25
                      THEN [parts |-> <<"Elite PER">>, score |-> 3]
                      ELSE IF a.player_efficiency_rating > 20
                      THEN [parts |-> <<"Strong PER">>, score |-> 2]
                      ELSE IF a.player_efficiency_rating > 15
                      THEN [parts |-> <<>>, score |-> 1]
                      ELSE NoSignal
             age   == IF a.age <= 25 THEN [parts |-> <<"Young with upside">>, score |-> 2]
                      ELSE IF a.age <= 27 THEN [parts |-> <<"Prime age">>, score |-> 1]
                      ELSE IF a.age >= 32
                      THEN [parts |-> <<"Veteran (age risk)">>, score |-> -1]
                      ELSE NoSignal
             gp    == IF a.games_played >= 70
                      THEN [parts |-> <<"Durable (70+ games)">>, score |-> 1]
                      ELSE IF a.games_played < 50
                      THEN [parts |-> <<"Injury concerns">>, score |-> -2]
                      ELSE NoSignal
             advanced_insights ==
                 usage.parts \o ts.parts \o per.parts \o age.parts \o gp.parts
         IN  [parts |-> SubSeq(advanced_insights, 1,
                               IF Len(advanced_insights) < 2
                               THEN Len(advanced_insights) ELSE 2),
              score |-> usage.score + ts.score + per.score + age.score + gp.score]

\* 6b. tier of total_z_score and the drop to next_player_z
tier_signal(c) ==
    LET tier == IF c.z_score > 10 THEN [parts |-> <<"Elite tier player">>, score |-> 15]
                ELSE IF c.z_score > 7 THEN [parts |-> <<"High-tier option">>, score |-> 10]
                ELSE IF c.z_score > 4 THEN [parts |-> <<"Solid contributor">>, score |-> 5]
                ELSE NoSignal
        drop == IF c.z_score - c.next_player_z > 2
                THEN [parts |-> <<"Significant tier drop after this pick">>, score |-> 8]
                ELSE NoSignal
    IN  [parts |-> tier.parts \o drop.parts, score |-> tier.score + drop.score]

\* 7. round-specific logic
round_signal(c) ==
    IF c.current_round <= 3
    THEN IF c.z_score > 8
         THEN [parts |-> <<"Top-tier talent for early rounds">>, score |-> 10]
         ELSE NoSignal
    ELSE IF c.current_round <= 6
    THEN IF c.z_score > 5
         THEN [parts |-> <<"Strong mid-round value">>, score |-> 8]
         ELSE NoSignal
    ELSE IF c.z_score > 2
         THEN [parts |-> <<"Good late-round upside">>, score |-> 5]
         ELSE NoSignal

\* draft_logic.py 1148
picks_until_next(c) ==
    IF c.current_round % 2 = 1
    THEN (c.num_teams * 2) - c.draft_position
    ELSE c.draft_position - 1

\* 8. next pick timing
timing_signal(c) ==
    IF picks_until_next(c) > 20
    THEN [parts |-> <<"Long wait until next pick">>, score |-> 5]
    ELSE NoSignal

\* the signals in the order the loop body evaluates them
Signals(c) ==
    <<punt_signal(c), scarcity_signal(c), need_signal(c), adp_signal(c),
      position_signal(c), advanced_signal(c), tier_signal(c), round_signal(c),
      timing_signal(c)>>

RECURSIVE reasoning_parts(_)
reasoning_parts(signals) ==
    IF signals = <<>> THEN <<>>
    ELSE signals[1].parts \o reasoning_parts(Tail(signals))

RECURSIVE priority_score(_)
priority_score(signals) ==
    IF signals = <<>> THEN 0
    ELSE signals[1].score + priority_score(Tail(signals))

\* the loop over top_players for the one row c, then the sort and the cut to
\* max_suggestions: a row without reasons gives no suggestion
get_suggestions(c) ==
    LET parts == reasoning_parts(Signals(c))
    IN  IF parts = <<>>
        THEN <<>>
        ELSE <<[main_reason        |-> parts[1],
                additional_reasons |-> SubSeq(parts, 2, IF Len(parts) < 3
                                                        THEN Len(parts) ELSE 3),
                priority_score     |-> priority_score(Signals(c))]>>

\* strategy_confidence with the number of punt categories that gives it
PuntContexts ==
    {[punt_confidence |-> "none", n_punt |-> 0],
     [punt_confidence |-> "low", n_punt |-> 1],
     [punt_confidence |-> "medium", n_punt |-> 2],
     [punt_confidence |-> "high", n_punt |-> 2]}

\* num_teams and draft_position of the call
DraftSlots == {[num_teams |-> 10, draft_position |-> 5],
               [num_teams |-> 12, draft_position |-> 1]}

\* the user's roster: empty, or its count of the row's main position
PositionContexts ==
    {[position_count |-> <<>>, main_position |-> "SG"],
     [position_count |-> <<0>>, main_position |-> "SG"],
     [position_count |-> <<1>>, main_position |-> "C"]}

AdvancedStats ==
    {<<>>,
     <<[usage_rate |-> 30, true_shooting_pct |-> 61, player_efficiency_rating |-> 26,
        age |-> 24, games_played |-> 72]>>}

Candidates ==
    {[punt_confidence      |-> p.punt_confidence,
      n_punt               |-> p.n_punt,
      non_punt_strength    |-> nps,
      elite_position_count |-> elite,
      need_hits            |-> hits,
      adp                  |-> adp,
      current_round        |-> rnd,
      num_teams            |-> slot.num_teams,
      draft_position       |-> slot.draft_position,
      position_count       |-> pos.position_count,
      main_position        |-> pos.main_position,
      advanced             |-> adv,
      z_score              |-> z,
      next_player_z        |-> 0] :
        p \in PuntContexts, nps \in {0, 2, 4, 6}, elite \in {3, 5, 6},
        hits \in {0, 1}, adp \in {<<>>, <<10>>, <<22>>, <<28>>, <<40>>},
        rnd \in {2, 7}, slot \in DraftSlots, pos \in PositionContexts,
        adv \in AdvancedStats, z \in {1, 11}}

\* suggestion_engine.get_suggestions(...)
CallGetSuggestions ==
    /\ pc = "suggest"
    /\ suggestions' = get_suggestions(candidate[1])
    /\ pc' = "suggested"
    /\ UNCHANGED <<config, session_keys, draft_started, draft_complete, draft_state,
                   screen, clicked>>
    /\ UNCHANGED <<candidate, puntVars, riskVars, gradeVars, persistVars, simVars>>
    /\ UNCHANGED <<apiVars, rankVars>>

InitSuggest ==
    /\ \E c \in Candidates : candidate = <<c>>
    /\ suggestions = <<>>
    /\ punt_candidates = <<>>
    /\ punt_analysis = <<>>
    /\ warnings = <<>>
    /\ risk_analysis = <<>>
    /\ category_analysis = <<>>
    /\ final_score = -1
    /\ grade = ""
    /\ NoSaves
    /\ NoSimulation
    /\ config = [num_teams |-> 0, draft_position |-> 0]
    /\ session_keys = {}
    /\ draft_started = FALSE
    /\ draft_complete = FALSE
    /\ draft_state = <<>>
    /\ pc = "suggest"
    /\ screen = "none"
    /\ clicked = <<>>
    /\ last_call = NoCall
    /\ advance_calls = 0
    /\ z_col = "z_points"
    /\ all_team_rosters = <<>>
    /\ user_team_id = 0

NextSuggest == CallGetSuggestions

SpecSuggest == InitSuggest /\ [][NextSuggest]_vars

\* the row with its ADP missing
WithoutAdp(c) == [c EXCEPT !.adp = <<>>]

\* C12: ADP value. A row whose adp is present and whose
\* adp - ((round - 1) * num_teams + draft_slot) exceeds 12 gets +20 on its
\* priority_score and the 'Excellent value' reason in its suggestion, as
\* main_reason or among additional_reasons, whatever other signals fired.
ExcellentValueReported ==
    (/\ pc = "suggested"
     /\ candidate[1].adp # <<>>
     /\ candidate[1].adp[1] - current_pick_number(candidate[1]) > 12)
        => /\ suggestions # <<>>
           /\ suggestions[1].priority_score =
                  priority_score(Signals(WithoutAdp(candidate[1]))) + 20
           /\ "Excellent value" \in {suggestions[1].main_reason}
                                      \cup Range(suggestions[1].additional_reasons)

----------------------------------------------------------------------------
(* CategoryAnalyzer.detect_punt_strategies as a whole: the loop over the
   categories, the recommendations and the overall strategy_confidence *)

\* the keys of CategoryAnalyzer.CATEGORIES, in the dictionary's order
CATEGORIES ==
    <<"z_points", "z_rebounds", "z_assists", "z_steals", "z_blocks",
      "z_turnovers", "z_fg_pct", "z_ft_pct", "z_three_pm">>

\* the candidates the loop appends for the categories in flagged: with ranking
\* data of at least 6 teams only criterion 1 ('high') can hold (criterion 2
\* asks for a total below -2 that criterion 1 has already taken), without it
\* only criteria 3 to 5 ('medium')
loop_candidates(flagged, with_rankings) ==
    LET hit(z) == [category |-> z,
                   confidence |-> IF with_rankings THEN "high" ELSE "medium"]
        all == [i \in 1..Len(CATEGORIES) |-> hit(CATEGORIES[i])]
    IN  SelectSeq(all, LAMBDA p : p.category \in flagged)

\* the overall strategy confidence
strategy_confidence(candidates) ==
    LET high_confidence_punts   == SelectSeq(candidates, LAMBDA p : p.confidence = "high")
        medium_confidence_punts == SelectSeq(candidates, LAMBDA p : p.confidence = "medium")
    IN  IF Len(high_confidence_punts) >= 2 THEN "high"
        ELSE IF Len(high_confidence_punts) >= 1 /\ Len(medium_confidence_punts) >= 1
        THEN "medium"
        ELSE IF Len(high_confidence_punts) >= 1 THEN "low"
        ELSE "none"

\* the number of candidates recommendations are generated for: the first two
\* 'high' ones, else the first candidate when it is 'medium'
recommended(candidates) ==
    LET high_confidence_punts == SelectSeq(candidates, LAMBDA p : p.confidence = "high")
    IN  IF candidates = <<>> THEN 0
        ELSE IF high_confidence_punts # <<>>
        THEN (IF Len(high_confidence_punts) < 2 THEN Len(high_confidence_punts) ELSE 2)
        ELSE 1

\* the dictionary returned for a roster of roster_len players
detect_punt_strategies(roster_len, candidates) ==
    IF roster_len < min_players
    THEN [punt_categories |-> <<>>, punt_recommendations |-> 0,
          strategy_confidence |-> "low"]
    ELSE [punt_categories      |-> candidates,
          punt_recommendations |-> recommended(candidates),
          strategy_confidence  |-> strategy_confidence(candidates)]

\* category_analyzer.detect_punt_strategies(roster, ...): the loop has filled
\* punt_candidates, the call returns
CallDetectPunt ==
    /\ pc = "punt"
    /\ punt_analysis = <<>>
    /\ punt_analysis' = <<detect_punt_strategies(
                              Len(all_team_rosters[user_team_id]), punt_candidates)>>
    /\ pc' = "punt_done"
    /\ UNCHANGED <<config, session_keys, draft_started, draft_complete, draft_state,
                   screen, clicked>>
    /\ UNCHANGED <<punt_candidates, suggestVars, riskVars, gradeVars, persistVars, simVars>>
    /\ UNCHANGED <<apiVars, rankVars>>

\* the rosters the call is made for: team 1 with 0 to MaxRoster players (only
\* the roster's length is read here, every player is written 0)
PuntRosters == {[i \in 1..n |-> 0] : n \in 0..MaxRoster}

InitPunt ==
    /\ \E flagged \in SUBSET Range(CATEGORIES), with_rankings \in BOOLEAN :
           punt_candidates = loop_candidates(flagged, with_rankings)
    /\ punt_analysis = <<>>
    /\ \E roster \in PuntRosters : all_team_rosters = <<roster>>
    /\ user_team_id = 1
    /\ z_col = "z_points"
    /\ candidate = <<>>
    /\ suggestions = <<>>
    /\ warnings = <<>>
    /\ risk_analysis = <<>>
    /\ category_analysis = <<>>
    /\ final_score = -1
    /\ grade = ""
    /\ NoSaves
    /\ NoSimulation
    /\ config = [num_teams |-> 1, draft_position |-> 1]
    /\ session_keys = {}
    /\ draft_started = FALSE
    /\ draft_complete = FALSE
    /\ draft_state = <<>>
    /\ pc = "punt"
    /\ screen = "none"
    /\ clicked = <<>>
    /\ last_call = NoCall
    /\ advance_calls = 0

NextPunt == CallDetectPunt

SpecPunt == InitPunt /\ [][NextPunt]_vars

\* the candidates of one confidence in the returned dictionary
PuntsOf(confidence) ==
    SelectSeq(punt_analysis[1].punt_categories, LAMBDA p : p.confidence = confidence)

\* C13: aggregate punt confidence. strategy_confidence is 'high' iff at least
\* two categories are high-confidence, 'medium' iff exactly one is, 'low' iff
\* none is high-confidence but a medium candidate exists, and 'none' iff there
\* are no candidates.
AggregateConfidence ==
    (/\ pc = "punt_done"
     /\ Len(all_team_rosters[user_team_id]) >= min_players)
        => LET confidence == punt_analysis[1].strategy_confidence
               high       == Len(PuntsOf("high"))
               medium     == Len(PuntsOf("medium"))
           IN  /\ (confidence = "high") <=> (high >= 2)
               /\ (confidence = "medium") <=> (high = 1)
               /\ (confidence = "low") <=> (high = 0 /\ medium >= 1)
               /\ (confidence = "none") <=> (punt_analysis[1].punt_categories = <<>>)

\* C15: insufficient data for punt detection. With fewer than min_players
\* players on the roster, detect_punt_strategies returns an empty candidate
\* list, no recommendations and the overall confidence 'none'.
InsufficientDataNone ==
    (/\ pc = "punt_done"
     /\ Len(all_team_rosters[user_team_id]) < min_players)
        => /\ punt_analysis[1].punt_categories = <<>>
           /\ punt_analysis[1].punt_recommendations = 0
           /\ punt_analysis[1].strategy_confidence = "none"

----------------------------------------------------------------------------
(* CategoryAnalyzer.detect_roster_construction_warnings: the six checks, each
   given by the warning it appends, and the overall risk_level *)

\* roster_df: the rows of player_pool_df whose player_id is in roster_ids
roster_df(roster_ids) ==
    SelectSeq(player_pool_df, LAMBDA player_id : player_id \in Range(roster_ids))

\* the warnings one check can append for a roster_df of n rows: a 'high'
\* warning needs high_min rows, the 'medium' one of its elif needs medium_min
CheckOutcomes(type, n, high_min, medium_min) ==
    {<<>>}
        \cup (IF n >= high_min THEN {<<[type |-> type, severity |-> "high"]>>} ELSE {})
        \cup (IF n >= medium_min THEN {<<[type |-> type, severity |-> "medium"]>>} ELSE {})

\* the warnings a medium-only check can append
MediumOutcomes(type, n, medium_min) ==
    {<<>>} \cup (IF n >= medium_min THEN {<<[type |-> type, severity |-> "medium"]>>} ELSE {})

\* the lists the six checks can build for a roster_df of n rows, in the order
\* of the checks
WarningLists(n) ==
    {injury \o age \o imbalance \o gap \o usage \o efficiency \o concentration :
        injury \in CheckOutcomes("injury_risk", n, 2, 3),
        age \in CheckOutcomes("age_risk", n, 2, 4),
        imbalance \in MediumOutcomes("position_imbalance", n, 4),
        gap \in MediumOutcomes("position_gap", n, 6),
        usage \in CheckOutcomes("usage_conflict", n, 3, 4),
        efficiency \in CheckOutcomes("efficiency_risk", n, 3, 5),
        concentration \in MediumOutcomes("team_concentration", n, 3)}

\* draft_logic.py 801-812
risk_level(found) ==
    LET high_risk_warnings   == SelectSeq(found, LAMBDA w : w.severity = "high")
        medium_risk_warnings == SelectSeq(found, LAMBDA w : w.severity = "medium")
    IN  IF Len(high_risk_warnings) >= 2 THEN "high"
        ELSE IF Len(high_risk_warnings) >= 1 \/ Len(medium_risk_warnings) >= 3
        THEN "medium"
        ELSE IF Len(found) > 0 THEN "low"
        ELSE "none"

\* the returned dictionary; found is what the six checks append
detect_roster_construction_warnings(roster_ids, found) ==
    IF Len(roster_ids) < min_players
    THEN [warnings |-> <<>>, risk_level |-> "low"]
    ELSE IF roster_df(roster_ids) = <<>>
    THEN [warnings |-> <<>>, risk_level |-> "low"]
    ELSE [warnings |-> found, risk_level |-> risk_level(found)]

\* category_analyzer.detect_roster_construction_warnings(roster_ids)
CallDetectWarnings ==
    /\ pc = "risk"
    /\ risk_analysis = <<>>
    /\ risk_analysis' = <<detect_roster_construction_warnings(
                              all_team_rosters[user_team_id], warnings)>>
    /\ pc' = "risk_done"
    /\ UNCHANGED <<config, session_keys, draft_started, draft_complete, draft_state,
                   screen, clicked>>
    /\ UNCHANGED <<warnings, suggestVars, puntVars, gradeVars, persistVars, simVars>>
    /\ UNCHANGED <<apiVars, rankVars>>

\* rosters of up to PoolSize player ids; id 0 is in no row of player_pool_df
RiskRosters ==
    {[i \in 1..n |-> IF known THEN i ELSE 0] : n \in 0..PoolSize, known \in BOOLEAN}

InitRisk ==
    /\ \E roster \in RiskRosters :
           /\ all_team_rosters = <<roster>>
           /\ warnings \in IF Len(roster) >= min_players
                           THEN WarningLists(Len(roster_df(roster)))
                           ELSE {<<>>}
    /\ risk_analysis = <<>>
    /\ user_team_id = 1
    /\ z_col = "z_points"
    /\ candidate = <<>>
    /\ suggestions = <<>>
    /\ punt_candidates = <<>>
    /\ punt_analysis = <<>>
    /\ category_analysis = <<>>
    /\ final_score = -1
    /\ grade = ""
    /\ NoSaves
    /\ NoSimulation
    /\ config = [num_teams |-> 1, draft_position |-> 1]
    /\ session_keys = {}
    /\ draft_started = FALSE
    /\ draft_complete = FALSE
    /\ draft_state = <<>>
    /\ pc = "risk"
    /\ screen = "none"
    /\ clicked = <<>>
    /\ last_call = NoCall
    /\ advance_calls = 0

NextRisk == CallDetectWarnings

SpecRisk == InitRisk /\ [][NextRisk]_vars

\* the returned warnings of one severity
WarningsOf(severity) ==
    SelectSeq(risk_analysis[1].warnings, LAMBDA w : w.severity = severity)

\* C14: overall roster risk level. risk_level is 'high' iff the result holds at
\* least 2 high-severity warnings; else 'medium' iff it holds at least 1 high or
\* at least 3 medium warnings; else 'low' iff it holds a warning; else 'none'.
\* 'low' never comes with an empty warnings list.
RiskLevelLadder ==
    pc = "risk_done" =>
        LET level  == risk_analysis[1].risk_level
            high   == Len(WarningsOf("high"))
            medium == Len(WarningsOf("medium"))
            any    == risk_analysis[1].warnings # <<>>
        IN  level = IF high >= 2 THEN "high"
                    ELSE IF high >= 1 \/ medium >= 3 THEN "medium"
                    ELSE IF any THEN "low"
                    ELSE "none"

----------------------------------------------------------------------------
(* DraftAnalytics._calculate_team_projection: the final score and the grade *)

\* the bands read with > in place of >=
letter_grade_exclusive(score) ==
    IF score > 90 THEN "A+" ELSE IF score > 85 THEN "A" ELSE IF score > 80 THEN "A-"
    ELSE IF score > 75 THEN "B+" ELSE IF score > 70 THEN "B" ELSE IF score > 65 THEN "B-"
    ELSE IF score > 60 THEN "C+" ELSE IF score > 55 THEN "C" ELSE IF score > 50 THEN "C-"
    ELSE IF score > 45 THEN "D+" ELSE IF score > 40 THEN "D" ELSE IF score > 35 THEN "D-"
    ELSE "F"

\* draft_logic.py 1547-1572
letter_grade(score) ==
    IF score >= 90 THEN "A+" ELSE IF score >= 85 THEN "A" ELSE IF score >= 80 THEN "A-"
    ELSE IF score >= 75 THEN "B+" ELSE IF score >= 70 THEN "B" ELSE IF score >= 65 THEN "B-"
    ELSE IF score >= 60 THEN "C+" ELSE IF score >= 55 THEN "C" ELSE IF score >= 50 THEN "C-"
    ELSE IF score >= 45 THEN "D+" ELSE IF score >= 40 THEN "D" ELSE IF score >= 35 THEN "D-"
    ELSE "F"

_calculate_team_projection(statuses, punt, construction) ==
    LET strong_categories == Len(SelectSeq(statuses, LAMBDA st : st = "strong"))
        average           == Len(SelectSeq(statuses, LAMBDA st : st = "average"))
        weak_categories   == Len(statuses) - strong_categories - average
        category_score    == 8 * strong_categories + 3 * average
        punt_bonus        == IF punt.strategy_confidence = "high" THEN 6
                             ELSE IF punt.strategy_confidence = "medium" THEN 3
                             ELSE 0
        level_penalty     == IF construction.risk_level = "high" THEN 30
                             ELSE IF construction.risk_level = "medium" THEN 20
                             ELSE IF construction.risk_level = "low" THEN 10
                             ELSE 0
        balance_penalty   == IF weak_categories >= 6 THEN 15
                             ELSE IF weak_categories >= 4 THEN 8
                             ELSE 0
        strong_team_bonus == IF strong_categories >= 7 THEN 10
                             ELSE IF strong_categories >= 5 THEN 5
                             ELSE IF strong_categories >= 3 THEN 2
                             ELSE 0
        base_score        == 35
        raw               == base_score + category_score + punt_bonus + strong_team_bonus
                                 - (level_penalty + balance_penalty)
        score             == IF raw > 100 THEN 100 ELSE IF raw < 0 THEN 0 ELSE raw
    IN  [final_score |-> score, grade |-> letter_grade(score)]

\* self._calculate_team_projection(category_analysis, punt_analysis, construction_warnings)
CallTeamProjection ==
    /\ pc = "project"
    /\ LET projection == _calculate_team_projection(category_analysis,
                                                    punt_analysis[1], risk_analysis[1])
       IN  /\ final_score' = projection.final_score
           /\ grade' = projection.grade
    /\ pc' = "projected"
    /\ UNCHANGED <<config, session_keys, draft_started, draft_complete, draft_state,
                   screen, clicked>>
    /\ UNCHANGED <<category_analysis, suggestVars, puntVars, riskVars, persistVars, simVars>>
    /\ UNCHANGED <<apiVars, rankVars>>

\* the statuses of the 9 categories, strong ones first (only the counts are read)
StatusLists ==
    {[i \in 1..Len(CATEGORIES) |-> IF i <= s THEN "strong"
                                   ELSE IF i <= s + a THEN "average" ELSE "weak"] :
        s \in 0..Len(CATEGORIES), a \in 0..Len(CATEGORIES)}

\* results detect_punt_strategies returns: no, one and two 'high' candidates
PuntResults ==
    {detect_punt_strategies(min_players, loop_candidates(flagged, TRUE)) :
        flagged \in {{}, {"z_points"}, {"z_points", "z_rebounds"}}}

\* results detect_roster_construction_warnings returns: for a roster of
\* min_players players of the pool, and for the empty roster
RiskResults ==
    {detect_roster_construction_warnings([i \in 1..min_players |-> i], found) :
        found \in WarningLists(min_players)}
        \cup {detect_roster_construction_warnings(<<>>, <<>>)}

InitGrade ==
    /\ category_analysis \in StatusLists
    /\ \E punt \in PuntResults : punt_analysis = <<punt>>
    /\ \E construction \in RiskResults : risk_analysis = <<construction>>
    /\ final_score = -1
    /\ grade = ""
    /\ NoSaves
    /\ NoSimulation
    /\ punt_candidates = <<>>
    /\ warnings = <<>>
    /\ candidate = <<>>
    /\ suggestions = <<>>
    /\ all_team_rosters = <<>>
    /\ user_team_id = 0
    /\ z_col = "z_points"
    /\ config = [num_teams |-> 0, draft_position |-> 0]
    /\ session_keys = {}
    /\ draft_started = FALSE
    /\ draft_complete = FALSE
    /\ draft_state = <<>>
    /\ pc = "project"
    /\ screen = "none"
    /\ clicked = <<>>
    /\ last_call = NoCall
    /\ advance_calls = 0

NextGrade == CallTeamProjection

SpecGrade == InitGrade /\ [][NextGrade]_vars

\* the letter grades from the best to the worst
Grades == <<"A+", "A", "A-", "B+", "B", "B-", "C+", "C", "C-", "D+", "D", "D-", "F">>

\* the place of a grade in Grades
GradeIndex(g) == CHOOSE i \in 1..Len(Grades) : Grades[i] = g

\* the 5-point band of a score: 1 for 90 and more, 2 for 85..89, ..., 12 for
\* 35..39, 13 below 35
Band(score) ==
    IF score >= 90 THEN 1
    ELSE IF score < 35 THEN 13
    ELSE 2 + ((89 - score) \div 5)

\* C16: grade banding. The grade is the one of the 5-point band of final_score
\* (A+ from 90, A for 85..89, ... D- for 35..39, F below 35), and no lower
\* score has a better grade.
GradeBanding ==
    pc = "projected" =>
        /\ final_score \in 0..100
        /\ grade = Grades[Band(final_score)]
        /\ \A lower \in 0..final_score :
               GradeIndex(letter_grade(lower)) >= GradeIndex(grade)

\* a team scoring exactly 90
GradeBoundaryWitness ==
    /\ pc = "projected"
    /\ final_score = 90
    /\ grade = "A+"

----------------------------------------------------------------------------
(* Properties of the analysis of the league *)

\* C17: empty roster. analyze_team_categories called with an empty roster, with
\* or without league context, gives in each of the 9 categories the status
\* 'average', the team total 0 and no rank.
EmptyRosterAverage ==
    all_team_rosters[user_team_id] = <<>> =>
        \A z \in Range(CATEGORIES) :
            \A context \in {<<all_team_rosters, user_team_id>>, <<<<>>, 0>>} :
                LET entry == analyze_team_categories(all_team_rosters[user_team_id],
                                                     context[1], context[2], z)
                IN  /\ entry.status = "average"
                    /\ entry.team_total = 0
                    /\ entry.rank = 0

\* the analysed team is still empty when every other team has a player
EmptyRosterWitness ==
    /\ all_team_rosters[user_team_id] = <<>>
    /\ \A t \in 1..LeagueTeams : t # user_team_id => all_team_rosters[t] # <<>>

----------------------------------------------------------------------------
(* One mock draft with a fixed configuration: every script run that has begun
   goes on to its end, and the user confirms a pick whenever the pick widgets
   are shown *)

NextDraft ==
    \/ Interact
    \/ StartClick
    \/ DraftClick
    \/ RunPreDraft
    \/ RunInitialize
    \/ RunDraftComplete
    \/ RunPoolExhausted
    \/ RunUserTurn
    \/ RunUserPick
    \/ RunAIPick

FairDraft ==
    /\ WF_vars(RunPreDraft)
    /\ WF_vars(RunInitialize)
    /\ WF_vars(RunDraftComplete)
    /\ WF_vars(RunPoolExhausted)
    /\ WF_vars(RunUserTurn)
    /\ WF_vars(RunUserPick)
    /\ WF_vars(RunAIPick)
    /\ SF_vars(DraftClick)

SpecDraft == Init /\ [][NextDraft]_vars /\ FairDraft

\* a DraftState exists and the pool has a player for every roster slot
FreshDraft ==
    /\ draft_state # <<>>
    /\ Len(player_pool_df) >= config.num_teams * ModelRosterSize

\* is_complete() holds after exactly num_teams * roster_size picks
DraftFinished ==
    /\ draft_state # <<>>
    /\ is_complete(ds)
    /\ Len(ds.drafted_players) = ds.num_teams * ds.roster_size
    /\ \A t \in DOMAIN ds.team_rosters : Len(ds.team_rosters[t]) = ds.roster_size
    /\ ds.round = ds.roster_size + 1

\* C18: draft completion liveness. From a fresh DraftState with a pool of at
\* least num_teams * roster_size players, if the user picks whenever it is their
\* turn, the pick loop reaches is_complete() after exactly
\* num_teams * roster_size picks, every team holding roster_size players and
\* round being roster_size + 1.
DraftCompletes == FreshDraft ~> DraftFinished

----------------------------------------------------------------------------
(* DraftAnalytics.generate_draft_recap, the entries of category z *)

\* the category analysis and the punt detection of one team
_analyze_team_comprehensive(team_id, roster_ids, rosters, user_id, z) ==
    [team_id           |-> team_id,
     is_user_team      |-> team_id = user_id,
     category_analysis |-> analyze_team_categories(roster_ids, rosters, user_id, z),
     punt_analysis     |-> punt_candidate(roster_ids, rosters, user_id, z)]

\* team_analyses: one analysis for every team with players
generate_draft_recap(rosters, user_id, z) ==
    [team_id \in {t \in DOMAIN rosters : rosters[t] # <<>>} |->
        _analyze_team_comprehensive(team_id, rosters[team_id], rosters, user_id, z)]

\* C19: per-team standing in the draft recap. For every team t with at least
\* one player, the rank and the status stored in t's analysis are those of t's
\* own category total among all teams, and t's punt detection uses t's own rank.
RecapOwnStanding ==
    LET team_analyses == generate_draft_recap(all_team_rosters, user_team_id, z_col)
        ranking       == UserRanking
    IN  \A t \in DOMAIN team_analyses :
            /\ team_analyses[t].category_analysis.rank = ranking.rankings[t]
            /\ team_analyses[t].category_analysis.status =
                   _get_category_status_relative(ranking.rankings[t], ranking.total_teams)
            /\ team_analyses[t].punt_analysis =
                   punt_candidate(all_team_rosters[t], all_team_rosters, t, z_col)

\* C20: rank range. A team's category rank counts only teams with at least one
\* player: for every team with players 1 <= rank <= total_teams, total_teams
\* being the number of teams with players, and a team without players gets no
\* rank, at any point of the draft.
RankWithinTeamsWithPlayers ==
    LET ranking == UserRanking
    IN  \A t \in 1..LeagueTeams :
            IF all_team_rosters[t] # <<>>
            THEN /\ 1 <= ranking.rankings[t]
                 /\ ranking.rankings[t] <= ranking.total_teams
            ELSE t \notin DOMAIN ranking.rankings

\* C21: dense ranking. Teams with equal totals in a category have the same rank
\* in it, and the next distinct total has the next rank.
DenseRanking ==
    LET ranking == UserRanking
        playing == {t \in 1..LeagueTeams : all_team_rosters[t] # <<>>}
        better(t) == {ranking.totals[u] : u \in {v \in playing :
                         sorts_before(v, t, ranking.totals, good_direction(z_col) = "high")
                             /\ ranking.totals[v] # ranking.totals[t]}}
    IN  \A t, u \in playing :
            /\ ranking.totals[t] = ranking.totals[u]
                   => ranking.rankings[t] = ranking.rankings[u]
            /\ (playing = 1..LeagueTeams)
                   => ranking.rankings[t] = 1 + Cardinality(better(t))

----------------------------------------------------------------------------
(* Properties of the suggestion signals *)

\* the DraftState of the call: the user is on the clock in round current_round
StateAtUserTurn(c) ==
    LET order == [i \in 1..c.num_teams |-> i]
    IN  [DraftState(c.num_teams, c.draft_position, c.current_round + 1)
            EXCEPT !.round = c.current_round,
                   !.draft_order = IF c.current_round % 2 = 1 THEN order ELSE Reverse(order),
                   !.current_pick_team = c.draft_position]

\* the picks of other teams that advance_pick places before the user's next turn
RECURSIVE PicksBeforeNextTurn(_)
PicksBeforeNextTurn(s) ==
    LET next == advance_pick(s)
    IN  IF next.current_pick_team = next.user_team_id
        THEN 0
        ELSE 1 + PicksBeforeNextTurn(next)

\* C22: pick-distance signal. The picks-until-next-turn value of get_suggestions
\* is the number of picks the serpentine order places between the user's
\* current and next turn, 2 * (num_teams - draft_slot) in an odd round and
\* 2 * (draft_slot - 1) in an even one, and the +5 bonus is given iff that
\* number exceeds 20.
PickDistance ==
    pc = "suggested" =>
        LET c      == candidate[1]
            actual == PicksBeforeNextTurn(StateAtUserTurn(c))
        IN  /\ actual = IF c.current_round % 2 = 1
                        THEN 2 * (c.num_teams - c.draft_position)
                        ELSE 2 * (c.draft_position - 1)
            /\ picks_until_next(c) = actual
            /\ (timing_signal(c).score = 5) <=> (actual > 20)

----------------------------------------------------------------------------
(* get_suggestions on the page: the rows of available_players keep the row
   labels of player_pool_df (get_available_players does not reset the index) *)

\* total_z_score of a player; get_player_pool orders the pool by it, descending,
\* with drops of 1 and of 3 between neighbours
total_z_score(player_id) == 15 - 2 * player_id - (player_id % 2)

\* available_players.head(10): idx is the row label, the row number in
\* player_pool_df counted from 0
top_players(available) ==
    LET rows == [k \in 1..Len(available) |->
                    [idx |-> ListIndex(player_pool_df, available[k]),
                     total_z_score |-> total_z_score(available[k])]]
    IN  SubSeq(rows, 1, IF Len(rows) < 10 THEN Len(rows) ELSE 10)

\* draft_logic.py 1047: iloc takes a position, idx is a label
next_player_z(top, k) ==
    LET idx == top[k].idx
    IN  IF idx < Len(top) - 1
        THEN top[(IF idx + 1 < Len(top) - 1 THEN idx + 1 ELSE Len(top) - 1) + 1].total_z_score
        ELSE 0

\* whether the row at position k of top_players gets the tier drop bonus
tier_drop_awarded(top, k) ==
    "Significant tier drop after this pick" \in
        Range(tier_signal([z_score |-> top[k].total_z_score,
                           next_player_z |-> next_player_z(top, k)]).parts)

\* C23: tier cliff. Every row of the top-10 list with a successor gets the +8
\* tier drop bonus iff its rating exceeds the rating of the row right after it
\* in the list by more than 2, whatever the rows' labels in the player pool.
TierCliffByPosition ==
    (pc = "idle" /\ screen = "user_pick") =>
        LET top == top_players(available_players)
        IN  \A k \in 1..(Len(top) - 1) :
                tier_drop_awarded(top, k)
                    <=> (top[k].total_z_score - top[k + 1].total_z_score > 2)

\* C24: punt-fit signal. With an active punt strategy the punt-fit signal adds
\* exactly one of 0, +5, +10, +15 to priority_score, chosen by the candidate's
\* non-punt strength being > 1, > 3 or > 5, however many categories are punted.
PuntFitOnce ==
    (/\ pc = "suggested"
     /\ candidate[1].n_punt > 0
     /\ candidate[1].punt_confidence \in {"high", "medium"})
        => punt_signal(candidate[1]).score =
               IF candidate[1].non_punt_strength > 5 THEN 15
               ELSE IF candidate[1].non_punt_strength > 3 THEN 10
               ELSE IF candidate[1].non_punt_strength > 1 THEN 5
               ELSE 0

----------------------------------------------------------------------------
(* detect_punt_strategies on a percentage category, for a roster large enough
   for criterion 5, with and without a league of 6 teams with players *)

\* "len(roster_df) >= 6"
PctMinPlayers == 6

\* z-scores in the percentage column: poor, average and outstanding
PctZVals == {-2, 1, 9}

\* rosters of PctMinPlayers players
PctRosters == [1..PctMinPlayers -> PctZVals]

\* the other five teams: no player yet, or one player each
PctLeagues == {[t \in 1..(LeagueTeams - 1) |-> other] : other \in {<<>>, <<-2>>, <<1>>}}

\* one pass of the loop body of detect_punt_strategies, for the column z_col
DetectCategory ==
    /\ pc = "category"
    /\ LET verdict == UserPunt
       IN  punt_candidates' =
               IF verdict.is_punt_candidate
               THEN <<[category |-> z_col, confidence |-> verdict.confidence]>>
               ELSE <<>>
    /\ pc' = "category_done"
    /\ UNCHANGED <<config, session_keys, draft_started, draft_complete, draft_state,
                   screen, clicked>>
    /\ UNCHANGED <<punt_analysis, suggestVars, riskVars, gradeVars, persistVars, simVars>>
    /\ UNCHANGED <<apiVars, rankVars>>

InitPct ==
    /\ z_col \in {"z_fg_pct", "z_ft_pct"}
    /\ user_team_id = LeagueTeams
    /\ \E roster \in PctRosters, others \in PctLeagues :
           all_team_rosters = Append(others, roster)
    /\ punt_candidates = <<>>
    /\ punt_analysis = <<>>
    /\ candidate = <<>>
    /\ suggestions = <<>>
    /\ warnings = <<>>
    /\ risk_analysis = <<>>
    /\ category_analysis = <<>>
    /\ final_score = -1
    /\ grade = ""
    /\ NoSaves
    /\ NoSimulation
    /\ config = [num_teams |-> LeagueTeams, draft_position |-> LeagueTeams]
    /\ session_keys = {}
    /\ draft_started = FALSE
    /\ draft_complete = FALSE
    /\ draft_state = <<>>
    /\ pc = "category"
    /\ screen = "none"
    /\ clicked = <<>>
    /\ last_call = NoCall
    /\ advance_calls = 0

NextPct == DetectCategory

SpecPct == InitPct /\ [][NextPct]_vars

\* criteria 1 and 2 match: ranking data of at least 6 teams, bottom quintile
\* with a total below -1 or last place with a total below -2
RankRuleMatches ==
    LET ranking == UserRanking
        rank    == ranking.rankings[user_team_id]
        total   == Sum(all_team_rosters[user_team_id])
    IN  /\ ranking.total_teams >= PuntMinTeams
        /\ \/ 5 * rank >= 4 * ranking.total_teams /\ total < -1
           \/ rank = ranking.total_teams /\ total < -2

\* criteria 3 and 4 match: an extreme total in the bad direction
ExtremeTotalMatches ==
    IF good_direction(z_col) = "high"
    THEN Sum(all_team_rosters[user_team_id]) < -4
    ELSE Sum(all_team_rosters[user_team_id]) > 4

\* at least 75% of the players are below -1.0 in the column
MostlyPoor ==
    LET roster == all_team_rosters[user_team_id]
    IN  4 * Len(SelectSeq(roster, LAMBDA v : v < -1)) >= 3 * Len(roster)

\* C25: percentage-category punt rule. For FG% and FT%, when neither the
\* ranking rule nor the extreme-total rule matched, the roster has at least 6
\* players and at least 75% of them are below -1.0, the category is a punt
\* candidate of confidence 'medium', also with a league of 6 or more teams.
PercentageRule ==
    (/\ pc = "category_done"
     /\ ~RankRuleMatches
     /\ ~ExtremeTotalMatches
     /\ Len(all_team_rosters[user_team_id]) >= PctMinPlayers
     /\ MostlyPoor)
        => punt_candidates = <<[category |-> z_col, confidence |-> "medium"]>>

\* the status by absolute thresholds of the total of a category
AbsoluteStatus(total, z) ==
    IF good_direction(z) = "low"
    THEN IF total <= -3 THEN "strong"
         ELSE IF total <= 0 THEN "average"
         ELSE "weak"
    ELSE IF total >= 3 THEN "strong"
         ELSE IF total >= 0 THEN "average"
         ELSE "weak"

\* C26: single-team fallback. analyze_team_categories called for a non-empty
\* roster without all_team_rosters and team id gives each category the status
\* of the absolute thresholds: total >= 3 'strong', 0 <= total < 3 'average',
\* total < 0 'weak' (reversed for turnovers).
SingleTeamFallback ==
    LET roster == all_team_rosters[user_team_id]
    IN  (pc = "analysis" /\ roster # <<>>)
            => analyze_team_categories(roster, <<>>, 0, z_col).status
                   = AbsoluteStatus(Sum(roster), z_col)

----------------------------------------------------------------------------
(* Properties of the page when the pool runs out *)

\* no undrafted player remains while the draft is not complete
PoolExhausted ==
    /\ draft_state # <<>>
    /\ draft_started
    /\ ~is_complete(ds)
    /\ available_players = <<>>

\* the draft is marked complete and the page has stopped re-running
ExhaustedDraftStopped ==
    /\ draft_complete
    /\ pc = "idle"

\* C27: pool exhaustion terminates the draft. If no undrafted player remains
\* while some roster is below roster_size, the loop marks the draft complete and
\* eventually stops re-running: it reaches a stable state in which no further
\* pick is attempted.
PoolExhaustionTerminates == PoolExhausted ~> ExhaustedDraftStopped

\* C28: draft-started flag stability. Once the user has started a mock draft,
\* draft_started stays True across every later rerun, including the rerun after
\* the very first pick, as long as num_teams and draft_position are unchanged:
\* initialize_draft_state clears the flags only when the configuration changed.
DraftStartedStable ==
    [][(draft_started /\ config' = config) => draft_started']_vars

----------------------------------------------------------------------------
(* DraftPersistence: save_draft_state, load_draft_state and
   restore_draft_state_to_session, called directly on a DraftState that is
   being drafted. The auto-save of the page stores the same dictionary after a
   pick; the runs of handle_mock_draft modelled above never read it. *)

\* generate_draft_id: a digest of num_teams, draft_position, season and the day;
\* season and day are fixed, the id is named by the two numbers
generate_draft_id(num_teams, draft_position) == <<num_teams, draft_position>>

\* the DraftSaveState built by save_draft_state, as the dictionary of asdict();
\* the lists are copies of the lists of the DraftState
DraftSaveState(s, cfg) ==
    [draft_id          |-> generate_draft_id(cfg.num_teams, cfg.draft_position),
     num_teams         |-> s.num_teams,
     draft_position    |-> s.draft_position,
     roster_size       |-> s.roster_size,
     round             |-> s.round,
     current_pick_team |-> s.current_pick_team,
     drafted_players   |-> s.drafted_players,
     team_rosters      |-> [k \in DOMAIN s.team_rosters |-> s.team_rosters[k]],
     user_team_id      |-> s.user_team_id,
     draft_order       |-> s.draft_order,
     complete          |-> s.complete]

\* st.session_state after save_draft_state: the dictionary is stored under the
\* key of its id, replacing an earlier save of the same id
save_draft_state(s, cfg) ==
    LET save_state == DraftSaveState(s, cfg)
    IN  [k \in DOMAIN draft_saves \cup {save_state.draft_id} |->
             IF k = save_state.draft_id THEN save_state ELSE draft_saves[k]]

\* load_draft_state: <<>> stands for None
load_draft_state(draft_id) ==
    IF draft_id \in DOMAIN draft_saves THEN <<draft_saves[draft_id]>> ELSE <<>>

\* restore_draft_state_to_session that only builds the new DraftState
restore_new_draft_state(save_state) ==
    DraftState(save_state.num_teams, save_state.draft_position, save_state.roster_size)

\* the DraftState restore_draft_state_to_session puts into the session
restore_draft_state_to_session(save_state) ==
    [DraftState(save_state.num_teams, save_state.draft_position, save_state.roster_size)
        EXCEPT !.round = save_state.round,
               !.current_pick_team = save_state.current_pick_team,
               !.drafted_players = save_state.drafted_players,
               !.team_rosters = [k \in DOMAIN save_state.team_rosters |->
                                     save_state.team_rosters[k]],
               !.user_team_id = save_state.user_team_id,
               !.draft_order = save_state.draft_order,
               !.complete = save_state.complete]

\* a pick on the live DraftState: draft_player for the team on the clock, then
\* advance_pick
LivePick ==
    /\ pc \in {"persist", "restored"}
    /\ ~is_complete(ds)
    /\ advance_calls < MaxAdvance
    /\ advance_calls' = advance_calls + 1
    /\ \E player_id \in Range(available_players) :
           draft_state' = <<advance_pick(draft_player(ds, player_id, ds.current_pick_team))>>
    /\ pc' = "persist"
    /\ UNCHANGED <<config, session_keys, draft_started, draft_complete, screen, clicked>>
    /\ UNCHANGED <<last_call, rankVars, suggestVars, puntVars, riskVars, gradeVars, persistVars, simVars>>

\* DraftPersistence.save_draft_state(draft_state, config)
CallSaveDraftState ==
    /\ pc \in {"persist", "restored"}
    /\ draft_saves' = save_draft_state(ds, config)
    /\ returned_id' = <<generate_draft_id(config.num_teams, config.draft_position)>>
    /\ state_at_save' = draft_state
    /\ session_keys' = session_keys \cup {"draft_save", "saved_drafts"}
    /\ pc' = "persist"
    /\ UNCHANGED <<config, draft_started, draft_complete, draft_state, screen, clicked>>
    /\ UNCHANGED <<apiVars, rankVars, suggestVars, puntVars, riskVars, gradeVars, simVars>>

\* load_draft_state of the returned id, then restore_draft_state_to_session
CallLoadAndRestore ==
    /\ pc = "persist"
    /\ returned_id # <<>>
    /\ load_draft_state(returned_id[1]) # <<>>
    /\ LET save_state == load_draft_state(returned_id[1])[1]
       IN  /\ draft_state' = <<restore_draft_state_to_session(save_state)>>
           /\ draft_complete' = save_state.complete
    /\ draft_started' = TRUE
    /\ session_keys' = session_keys \cup {"draft_state", "draft_state_initialized",
                                          "draft_started", "draft_complete",
                                          "restored_config"}
    /\ pc' = "restored"
    /\ UNCHANGED <<config, screen, clicked>>
    /\ UNCHANGED <<apiVars, rankVars, suggestVars, puntVars, riskVars, gradeVars, persistVars, simVars>>

InitPersist ==
    /\ config \in ValidConfigs
    /\ session_keys = {"draft_state", "draft_state_initialized", "draft_started"}
    /\ draft_started = TRUE
    /\ draft_complete = FALSE
    /\ draft_state = <<DraftState(config.num_teams, config.draft_position, ModelRosterSize)>>
    /\ pc = "persist"
    /\ screen = "none"
    /\ clicked = <<>>
    /\ InitOther

NextPersist ==
    \/ LivePick
    \/ CallSaveDraftState
    \/ CallLoadAndRestore

SpecPersist == InitPersist /\ [][NextPersist]_vars

\* C29: save/restore round trip. After any sequence of picks, save_draft_state
\* followed by load_draft_state of the returned id and
\* restore_draft_state_to_session yields a DraftState whose num_teams,
\* draft_position, roster_size, round, current_pick_team, drafted_players,
\* team_rosters, user_team_id, draft_order and complete equal their values at
\* the time of the save, even if the live DraftState received further picks
\* after the save.
SaveRestoreRoundTrip ==
    pc = "restored" => ds = state_at_save[1]

\* a restored DraftState of two picks and a second round, when the DraftStates of
\* the session have had five picks in all
RoundTripWitness ==
    /\ pc = "restored"
    /\ Len(ds.drafted_players) = 2
    /\ ds.round = 2
    /\ advance_calls = 5
    /\ draft_saves[returned_id[1]].drafted_players = ds.drafted_players

----------------------------------------------------------------------------
(* The draft engine service: get_recommendations and simulate_draft *)

\* rounds of the simulated draft
SimRosterSize == 3

\* fetch_player_pool: one dictionary per player; a missing adp is 999, the
\* second player carries an injury note
fetch_player_pool ==
    [i \in 1..PoolSize |->
        [player_id     |-> i,
         total_z_score |-> total_z_score(i),
         adp           |-> IF i = PoolSize THEN 999 ELSE 10 * i,
         injured       |-> i = 2]]

\* compute_draft_score, in twentieths: total_z_score - 0.05 * adp - 5 if injured
compute_draft_score(player) ==
    20 * player.total_z_score - player.adp - (IF player.injured THEN 100 ELSE 0)

\* position of row i of the list in sorted(..., key=score, reverse=True)
ScoreRank(players, i) ==
    1 + Cardinality({j \in 1..Len(players) :
            \/ compute_draft_score(players[j]) > compute_draft_score(players[i])
            \/ /\ compute_draft_score(players[j]) = compute_draft_score(players[i])
               /\ j < i})

\* get_recommendations(player_pool, drafted_players, top_n)
get_recommendations(player_pool, drafted_players, top_n) ==
    LET available ==
            SelectSeq(player_pool, LAMBDA p : p.player_id \notin drafted_players)
        n == Len(available)
        sorted_players ==
            [k \in 1..n |->
                available[CHOOSE i \in 1..n : ScoreRank(available, i) = k]]
    IN  SubSeq(sorted_players, 1, IF n < top_n THEN n ELSE top_n)

\* the locals of simulate_draft(num_teams, roster_size) before the first round
simulate_draft(num_teams, roster_size) ==
    [num_teams       |-> num_teams,
     roster_size     |-> roster_size,
     drafted_players |-> {},
     teams           |-> [i \in 1..num_teams |-> <<>>],
     pick_order      |-> [i \in 1..num_teams |-> i],
     round_number    |-> 1,
     round_pick      |-> 0,
     slot            |-> 0,
     picks           |-> <<>>]

SimUnchanged ==
    /\ UNCHANGED <<config, session_keys, draft_started, draft_complete, draft_state,
                   screen, clicked>>
    /\ UNCHANGED <<apiVars, rankVars, suggestVars, puntVars, riskVars, gradeVars, persistVars>>

\* "for round_pick in range(roster_size)": a round begins, the order is
\* reversed when round_number is even
SimBeginRound ==
    /\ pc = "sim_round"
    /\ sim[1].round_pick < sim[1].roster_size
    /\ sim' = <<[sim[1] EXCEPT
                   !.pick_order = IF sim[1].round_number % 2 = 0
                                  THEN Reverse(@) ELSE @,
                   !.slot = 1]>>
    /\ pc' = "sim_pick"
    /\ SimUnchanged

\* one pass of "for team_id in pick_order" with a recommendation: the team
\* drafts recommendations[0]
SimPick ==
    /\ pc = "sim_pick"
    /\ sim[1].slot <= Len(sim[1].pick_order)
    /\ LET team_id         == sim[1].pick_order[sim[1].slot]
           recommendations == get_recommendations(fetch_player_pool,
                                                  sim[1].drafted_players, 5)
       IN  /\ recommendations # <<>>
           /\ sim' = <<[sim[1] EXCEPT
                          !.teams[team_id] = Append(@, recommendations[1].player_id),
                          !.drafted_players = @ \cup {recommendations[1].player_id},
                          !.picks = Append(@, [round   |-> sim[1].round_number,
                                               slot    |-> sim[1].slot,
                                               team_id |-> team_id]),
                          !.slot = @ + 1]>>
    /\ UNCHANGED pc
    /\ SimUnchanged

\* no recommendation is left: break leaves the round
SimNoPlayers ==
    /\ pc = "sim_pick"
    /\ sim[1].slot <= Len(sim[1].pick_order)
    /\ get_recommendations(fetch_player_pool, sim[1].drafted_players, 5) = <<>>
    /\ sim' = <<[sim[1] EXCEPT !.round_number = @ + 1, !.round_pick = @ + 1]>>
    /\ pc' = "sim_round"
    /\ SimUnchanged

\* every team has picked: round_number += 1
SimEndRound ==
    /\ pc = "sim_pick"
    /\ sim[1].slot > Len(sim[1].pick_order)
    /\ sim' = <<[sim[1] EXCEPT !.round_number = @ + 1, !.round_pick = @ + 1]>>
    /\ pc' = "sim_round"
    /\ SimUnchanged

\* the loop over the rounds is over: the rosters are printed
SimFinish ==
    /\ pc = "sim_round"
    /\ sim[1].round_pick >= sim[1].roster_size
    /\ pc' = "sim_done"
    /\ UNCHANGED sim
    /\ SimUnchanged

InitSim ==
    /\ config \in ValidConfigs
    /\ \E roster_size \in 1..SimRosterSize :
           sim = <<simulate_draft(config.num_teams, roster_size)>>
    /\ session_keys = {}
    /\ draft_started = FALSE
    /\ draft_complete = FALSE
    /\ draft_state = <<>>
    /\ pc = "sim_round"
    /\ screen = "none"
    /\ clicked = <<>>
    /\ candidate = <<>>
    /\ suggestions = <<>>
    /\ punt_candidates = <<>>
    /\ punt_analysis = <<>>
    /\ warnings = <<>>
    /\ risk_analysis = <<>>
    /\ category_analysis = <<>>
    /\ final_score = -1
    /\ grade = ""
    /\ NoSaves
    /\ last_call = NoCall
    /\ advance_calls = 0
    /\ z_col = "z_points"
    /\ all_team_rosters = <<>>
    /\ user_team_id = 0

NextSim ==
    \/ SimBeginRound
    \/ SimPick
    \/ SimNoPlayers
    \/ SimEndRound
    \/ SimFinish

SpecSim == InitSim /\ [][NextSim]_vars

\* C30: simulate_draft is a snake draft whose pick order reverses every round:
\* in every round r >= 1 the teams pick in the order 1..N when r is odd and in
\* the order N..1 when r is even.
SnakeOrderEveryRound ==
    sim # <<>> =>
        \A i \in 1..Len(sim[1].picks) :
            LET pick == sim[1].picks[i]
            IN  pick.team_id = IF pick.round % 2 = 1
                               THEN pick.slot
                               ELSE sim[1].num_teams + 1 - pick.slot

====
